---- MODULE Spec2Model ----
(***************************************************************************)
(* StandardDetector (ophyd_async/core/detector.py): the step-scan          *)
(* acquisition state machine built on a DetectorControl and a              *)
(* DetectorWriter.  Every coroutine is cut at its await points; the event  *)
(* loop interleaves the pieces of the outstanding stage(), trigger() and   *)
(* unstage() tasks with each other and with the hardware (the control      *)
(* reporting a frame, the writer committing an index, an operation         *)
(* failing).                                                               *)
(***************************************************************************)
EXTENDS Naturals, FiniteSets, Sequences, TLC

\* ------------------------------------------------------------------ bounds
\* Largest value of the writer's index counter.
MaxWritten == 2
\* Distinct description mappings writer.open() can return (1..NumDescs).
NumDescs == 2
\* Largest number of images PilatusController.arm is asked for.
MaxNum == 2

\* The status handles the caller holds: two calls of stage(), trigger() and
\* unstage() can be outstanding together, and a handle whose call is over is
\* given up for the next call.
Slots == {1, 2}

\* ------------------------------------------------------------------ state
VARIABLES
    _describe,  \* StandardDetector._describe: 0 is {}, d > 0 a mapping of open()
    control,    \* DetectorControl: [armed, mode, num]
    data,       \* DetectorWriter: [open, written, description]
    tasks,      \* the AsyncStatus-wrapped coroutines, one per slot
    ret,        \* what the last describe()/read()/collect_asset_docs() returned
    stream,     \* DetectorWriter's stream documents: [file, last_emitted]
    caller,     \* "any": calls may overlap; "sequential": each call is awaited
    recovery,   \* history of a sequential caller: a failed trigger, then a
                \* stage, then a trigger
    plan,       \* count_sim, the plan of the tests, and the documents it got
    peer,       \* the second detector of count_sim, with its own control and writer
    pilatus     \* PilatusController: its driver's signals and its arm()/disarm()

vars == <<_describe, control, data, tasks, ret, stream, caller, recovery,
          plan, peer, pilatus>>

\* What only count_sim and PilatusController change.
others == <<plan, peer, pilatus>>

\* The empty mapping {} and the descriptions open() can return.
EmptyMapping == 0
Descs == 1..NumDescs
\* The writer's record of what open() returned, before any open() has.
NotOpened == NumDescs + 1
\* A local variable of trigger() that is not bound yet.
NoCount == MaxWritten + 2

Errors == {"CloseError", "DisarmError", "OpenError", "ArmError",
           "StatusError", "TimeoutError", "UsageError"}

\* DetectorTrigger
DetectorTrigger == {"internal", "edge_trigger", "constant_gate", "variable_gate"}

\* A slot no call occupies.
Free == [kind |-> "free", pc |-> "idle", status |-> "none", error |-> "none",
         indices_written |-> NoCount, written_status |-> "none", index |-> NoCount,
         close |-> "none", disarm |-> "none", gather_exc |-> "none",
         first |-> "none"]

\* AsyncStatus: done once the wrapped coroutine has returned or raised.
Done(t) == t.status \in {"success", "failed"}

Pending(s) == tasks[s].status = "pending"

\* A slot can take a new call once its status is done and no coroutine that
\* gather() started for it is still running.
Reusable(s) ==
    /\ tasks[s].status # "pending"
    /\ tasks[s].close # "running"
    /\ tasks[s].disarm # "running"

\* The slot a new call is put in: the first reusable one.  A sequential
\* caller calls only when nothing is outstanding.
NextSlot(s) ==
    /\ Reusable(s)
    /\ \A r \in Slots : Reusable(r) => ~(r < s)
    /\ caller = "sequential" => \A r \in Slots : Reusable(r)

\* What is left of a coroutine that has returned or raised: its status, and
\* the coroutines gather() started for it that are still running.
Finished(t, status, e) ==
    [Free EXCEPT !.kind = t.kind, !.pc = "done", !.status = status, !.error = e,
                 !.close = IF t.close = "running" THEN "running" ELSE "none",
                 !.disarm = IF t.disarm = "running" THEN "running" ELSE "none"]

Succeed(s) == [tasks EXCEPT ![s] = Finished(tasks[s], "success", "none")]

Fail(s, e) == [tasks EXCEPT ![s] = Finished(tasks[s], "failed", e)]

\* The history a sequential caller's calls leave, from the call that went
\* from t to u in this step: a trigger() that failed with the control armed,
\* the next successful stage(), the next successful trigger(); or an
\* unstage() that succeeded, and another one after it.
Recovered(t, u) ==
    IF caller # "sequential" \/ t.status # "pending" \/ ~Done(u) THEN recovery
    ELSE CASE t.kind = "trigger" /\ u.status = "failed" ->
                  IF control'.armed THEN "left_armed" ELSE "none"
           [] t.kind = "trigger" /\ u.status = "success" ->
                  IF recovery = "restaged" THEN "retriggered" ELSE "none"
           [] t.kind = "stage" /\ u.status = "success" ->
                  IF recovery = "left_armed" THEN "restaged" ELSE "none"
           [] t.kind = "unstage" /\ u.status = "success" ->
                  IF recovery \in {"left_armed", "restaged"} THEN recovery
                  ELSE IF recovery \in {"unstaged", "unstaged_again"}
                       THEN "unstaged_again" ELSE "unstaged"
           [] OTHER -> recovery

Track(s) == recovery' = Recovered(tasks[s], tasks'[s])

\* The writer's stream documents before any were collected: no file made
\* for them, no index emitted.
NoFile == [file |-> FALSE, last_emitted |-> 0]

\* A control that was never armed and a writer that was never opened.
NewControl == [armed |-> FALSE, mode |-> "none", num |-> 0]

NewWriter == [open |-> FALSE, written |-> 0, description |-> NotOpened]

\* No plan is run.
NoPlan ==
    [pc |-> "none", dets |-> 1, times |-> 1, n |-> 0, read_values |-> <<0, 0>>,
     set |-> {}, docs |-> <<>>]

\* No call of the controller is outstanding.
NoCall ==
    [kind |-> "none", pc |-> "idle", mode |-> "internal", num |-> 0,
     sets |-> [trigger_mode |-> "none", num_images |-> "none", image_mode |-> "none"],
     gather_exc |-> "none", error |-> "none"]

\* PilatusController(driver), with the driver's signals as they are at first.
NoController ==
    [driver |-> [trigger_mode |-> "internal", num_images |-> 0,
                 image_mode |-> "single", acquire |-> FALSE],
     call |-> NoCall]

\* StandardDetector(control, writer, config_sigs)
Constructed ==
    /\ _describe = EmptyMapping
    /\ control = NewControl
    /\ data = NewWriter
    /\ tasks = [s \in Slots |-> Free]
    /\ ret = [op |-> "none", val |-> EmptyMapping, error |-> "none", docs |-> <<>>]
    /\ stream = NoFile
    /\ peer = [_describe |-> EmptyMapping, control |-> NewControl, data |-> NewWriter,
               stream |-> NoFile, task |-> Free]

Start(c) ==
    /\ Constructed
    /\ plan = NoPlan
    /\ pilatus = NoController
    /\ caller = c
    /\ recovery = "none"

Init == Start("any")

SeqInit == Start("sequential")

\* ------------------------------------------------------------------ stage
\* A wait that is over as soon as either coroutine has returned.
GatherFirstCompleted(t) ==
    IF t.gather_exc # "none" THEN t.gather_exc
    ELSE IF t.close = "done" \/ t.disarm = "done" THEN "done"
    ELSE "pending"

\* A gather that hands exceptions back as results instead of raising them.
GatherReturnExceptions(t) ==
    IF t.close # "running" /\ t.disarm # "running" THEN "done" ELSE "pending"

\* await asyncio.gather(a, b): "pending" while it waits, "done" when both
\* have returned, and the first exception of either as soon as that one
\* raises (the other is left running).
GatherResult(t) ==
    IF t.gather_exc # "none" THEN t.gather_exc
    ELSE IF t.close = "done" /\ t.disarm = "done" THEN "done"
    ELSE "pending"

\* A stage() that does not disarm the control.
GatherStartsCloseOnly == [close |-> "running", disarm |-> "done"]

\* What gather(self.data.close(), self.control.disarm()) starts.
GatherStarts == [close |-> "running", disarm |-> "running"]

\* A stage() that awaits open() and drops what it returned.
StageDiscards(d) == _describe

\* self._describe = await self.data.open(): what stage() caches of the
\* mapping d that open() returned.
StageCaches(d) == d

\* The writer after open() has returned the description d: open, and with
\* no index written yet.
Opened(d) == [open |-> TRUE, written |-> 0, description |-> d]

\* What stage() returns: the status of its coroutine, in which gather() has
\* started close() and disarm().
stage ==
    [Free EXCEPT !.kind = "stage", !.pc = "gather", !.status = "pending",
                 !.close = GatherStarts.close, !.disarm = GatherStarts.disarm]

\* stage(): the status is created and gather() starts close() and disarm().
CallStage(s) ==
    /\ NextSlot(s)
    /\ tasks' = [tasks EXCEPT ![s] = stage]
    /\ UNCHANGED <<_describe, control, data, ret, stream, caller, recovery, others>>

\* The writer w after close() has returned.
Closed(w) == [w EXCEPT !.open = FALSE]

\* A disarm() that switches the acquisition over instead of off.
DisarmToggles(c) == [c EXCEPT !.armed = ~@]

\* The control c after disarm() has returned: the acquisition is stopped.
Disarmed(c) == [c EXCEPT !.armed = FALSE]

\* writer.close() returns: the writer is closed.  In unstage() that is the
\* whole coroutine.
CloseDone(s) ==
    /\ tasks[s].close = "running"
    /\ data' = Closed(data)
    /\ tasks' = CASE tasks[s].kind = "unstage" ->
                       [tasks EXCEPT ![s] = Finished([@ EXCEPT !.close = "done"], "success", "none")]
                  [] Done(tasks[s]) -> [tasks EXCEPT ![s].close = "none"]
                  [] OTHER -> [tasks EXCEPT ![s].close = "done",
                                  ![s].first = IF @ = "none" THEN "close" ELSE @]
    /\ Track(s)
    /\ UNCHANGED <<_describe, control, ret, stream, caller, others>>

\* writer.close() raises.
CloseFail(s) ==
    /\ tasks[s].close = "running"
    /\ tasks' = CASE tasks[s].kind = "unstage" ->
                       [tasks EXCEPT ![s] = Finished([@ EXCEPT !.close = "failed"], "failed", "CloseError")]
                  [] Done(tasks[s]) -> [tasks EXCEPT ![s].close = "none"]
                  [] OTHER -> [tasks EXCEPT ![s].close = "failed",
                                  ![s].gather_exc = IF @ = "none" THEN "CloseError" ELSE @]
    /\ Track(s)
    /\ UNCHANGED <<_describe, control, data, ret, stream, caller, others>>

\* control.disarm() returns: the control is disarmed.
DisarmDone(s) ==
    /\ tasks[s].disarm = "running"
    /\ control' = Disarmed(control)
    /\ tasks' = IF Done(tasks[s])
                THEN [tasks EXCEPT ![s].disarm = "none"]
                ELSE [tasks EXCEPT ![s].disarm = "done",
                         ![s].first = IF @ = "none" THEN "disarm" ELSE @]
    /\ UNCHANGED <<_describe, data, ret, stream, caller, recovery, others>>

\* control.disarm() raises.
DisarmFail(s) ==
    /\ tasks[s].disarm = "running"
    /\ tasks' = IF Done(tasks[s])
                THEN [tasks EXCEPT ![s].disarm = "none"]
                ELSE [tasks EXCEPT ![s].disarm = "failed",
                         ![s].gather_exc = IF @ = "none" THEN "DisarmError" ELSE @]
    /\ UNCHANGED <<_describe, control, data, ret, stream, caller, recovery, others>>

\* The await of gather() raises: stage() ends with that exception.
StageGatherRaise(s) ==
    /\ tasks[s].kind = "stage" /\ tasks[s].pc = "gather"
    /\ GatherResult(tasks[s]) \in Errors
    /\ tasks' = Fail(s, GatherResult(tasks[s]))
    /\ Track(s)
    /\ UNCHANGED <<_describe, control, data, ret, stream, caller, others>>

\* The await of gather() returns: stage() calls writer.open().
StageOpen(s) ==
    /\ tasks[s].kind = "stage" /\ tasks[s].pc = "gather"
    /\ GatherResult(tasks[s]) = "done"
    /\ tasks' = [tasks EXCEPT ![s].pc = "open"]
    /\ UNCHANGED <<_describe, control, data, ret, stream, caller, recovery, others>>

\* writer.open() returns the description d, the writer is open with no
\* index written; stage() caches d and is done.
OpenDone(s, d) ==
    /\ tasks[s].kind = "stage" /\ tasks[s].pc = "open"
    /\ data' = Opened(d)
    /\ stream' = NoFile
    /\ _describe' = StageCaches(d)
    /\ tasks' = Succeed(s)
    /\ Track(s)
    /\ UNCHANGED <<control, ret, caller, others>>

\* writer.open() raises: stage() ends with that exception.
OpenFail(s) ==
    /\ tasks[s].kind = "stage" /\ tasks[s].pc = "open"
    /\ tasks' = Fail(s, "OpenError")
    /\ Track(s)
    /\ UNCHANGED <<_describe, control, data, ret, stream, caller, others>>

\* ---------------------------------------------------------------- trigger
\* A trigger() that leaves num at the default of control.arm.
ArmArgsDefault == [mode |-> "internal", num |-> 0]

\* What trigger() passes to control.arm.
ArmArgs == [mode |-> "internal", num |-> 1]

\* A trigger() that does not await the status arm returned.
StatusNotAwaited(written_status) == written_status \in {"pending", "done"}

\* await written_status: whether trigger() goes on, given the status arm
\* returned.
StatusAwaited(written_status) == written_status = "done"

\* A trigger() that waits for the count it read, not for one more.
WaitIndexUnchanged(indices_written) == indices_written

\* The index trigger() waits for, from the count it read first.
WaitIndex(indices_written) == indices_written + 1

\* writer.wait_for_index(index) returns once the writer reports index.
IndexReady(index) == data.written >= index

\* A trigger() that arms again when an await raised.
TriggerRetries(s, e) ==
    [tasks EXCEPT ![s].pc = "arm", ![s].written_status = "none", ![s].index = NoCount]

\* What a trigger() whose await raised e becomes.
TriggerRaises(s, e) == Fail(s, e)

\* What trigger() returns: the status of its coroutine, which has not run
\* yet.
trigger ==
    [Free EXCEPT !.kind = "trigger", !.pc = "get_indices_written",
                 !.status = "pending"]

\* trigger(): the status is created; the coroutine has not run yet.
CallTrigger(s) ==
    /\ NextSlot(s)
    /\ tasks' = [tasks EXCEPT ![s] = trigger]
    /\ UNCHANGED <<_describe, control, data, ret, stream, caller, recovery, others>>

\* indices_written = await self.data.get_indices_written()
GetIndicesWritten(s) ==
    /\ tasks[s].kind = "trigger" /\ tasks[s].pc = "get_indices_written"
    /\ tasks' = [tasks EXCEPT ![s].indices_written = data.written, ![s].pc = "arm"]
    /\ UNCHANGED <<_describe, control, data, ret, stream, caller, recovery, others>>

\* written_status = await self.control.arm(DetectorTrigger.internal, num=1):
\* the control is armed and hands back a status that is still running.
ArmReturn(s) ==
    /\ tasks[s].kind = "trigger" /\ tasks[s].pc = "arm"
    /\ control' = [armed |-> TRUE, mode |-> ArmArgs.mode, num |-> ArmArgs.num]
    /\ tasks' = [tasks EXCEPT ![s].written_status = "pending", ![s].pc = "await_status"]
    /\ UNCHANGED <<_describe, data, ret, stream, caller, recovery, others>>

\* control.arm raises, before or after the hardware was armed.
ArmRaise(s) ==
    /\ tasks[s].kind = "trigger" /\ tasks[s].pc = "arm"
    /\ \E armed \in {control.armed, TRUE} : control' = [control EXCEPT !.armed = armed]
    /\ tasks' = TriggerRaises(s, "ArmError")
    /\ Track(s)
    /\ UNCHANGED <<_describe, data, ret, stream, caller, others>>

\* The control reports the frame: the status arm returned completes.
WrittenStatusDone(s) ==
    /\ tasks[s].written_status = "pending"
    /\ tasks' = [tasks EXCEPT ![s].written_status = "done"]
    /\ UNCHANGED <<_describe, control, data, ret, stream, caller, recovery, others>>

\* The status arm returned fails.
WrittenStatusFail(s) ==
    /\ tasks[s].written_status = "pending"
    /\ tasks' = [tasks EXCEPT ![s].written_status = "failed"]
    /\ UNCHANGED <<_describe, control, data, ret, stream, caller, recovery, others>>

\* await written_status returns: trigger() calls
\* self.data.wait_for_index(indices_written + 1).
AwaitStatusReturn(s) ==
    /\ tasks[s].kind = "trigger" /\ tasks[s].pc = "await_status"
    /\ StatusAwaited(tasks[s].written_status)
    /\ tasks' = [tasks EXCEPT ![s].index = WaitIndex(tasks[s].indices_written),
                     ![s].pc = "wait_for_index"]
    /\ UNCHANGED <<_describe, control, data, ret, stream, caller, recovery, others>>

\* await written_status raises: trigger() ends with that exception.
AwaitStatusRaise(s) ==
    /\ tasks[s].kind = "trigger" /\ tasks[s].pc = "await_status"
    /\ tasks[s].written_status = "failed"
    /\ tasks' = TriggerRaises(s, "StatusError")
    /\ control' = control
    /\ Track(s)
    /\ UNCHANGED <<_describe, data, ret, stream, caller, others>>

\* wait_for_index returns: trigger() is done.
WaitForIndexReturn(s) ==
    /\ tasks[s].kind = "trigger" /\ tasks[s].pc = "wait_for_index"
    /\ IndexReady(tasks[s].index)
    /\ tasks' = Succeed(s)
    /\ control' = control
    /\ Track(s)
    /\ UNCHANGED <<_describe, data, ret, stream, caller, others>>

\* wait_for_index raises (a writer that gives up waiting): trigger() ends
\* with that exception.
WaitForIndexRaise(s) ==
    /\ tasks[s].kind = "trigger" /\ tasks[s].pc = "wait_for_index"
    /\ ~IndexReady(tasks[s].index)
    /\ tasks' = TriggerRaises(s, "TimeoutError")
    /\ control' = control
    /\ Track(s)
    /\ UNCHANGED <<_describe, data, ret, stream, caller, others>>

\* The writer commits one more index.
WriterCommit ==
    /\ data.written < MaxWritten
    /\ data' = [data EXCEPT !.written = @ + 1]
    /\ UNCHANGED <<_describe, control, tasks, ret, stream, caller, recovery, others>>

\* ---------------------------------------------------------------- unstage
\* An unstage() that disarms the control as well.
UnstageDisarms == [close |-> "running", disarm |-> "running"]

\* What await self.data.close() starts in unstage().
UnstageStarts == [close |-> "running", disarm |-> "none"]

\* An unstage() that refuses a detector whose writer is not open.
UnstageOnlyStaged ==
    IF data.open
    THEN [Free EXCEPT !.kind = "unstage", !.pc = "close", !.status = "pending",
                      !.close = "running"]
    ELSE [Free EXCEPT !.kind = "unstage", !.pc = "done", !.status = "failed",
                      !.error = "UsageError"]

\* What unstage() returns: the status of its coroutine.
unstage ==
    [Free EXCEPT !.kind = "unstage", !.pc = "close", !.status = "pending",
                 !.close = UnstageStarts.close, !.disarm = UnstageStarts.disarm]

\* unstage(): await self.data.close()
CallUnstage(s) ==
    /\ NextSlot(s)
    /\ tasks' = [tasks EXCEPT ![s] = unstage]
    /\ UNCHANGED <<_describe, control, data, ret, stream, caller, recovery, others>>

\* ------------------------------------------------- describe, read, collect
\* describe(): return self._describe
describe == _describe

\* A read() that returns what describe() returns.
ReadDescribes == _describe

\* read(): return {}
read == EmptyMapping

\* collect_asset_docs(): the count it hands to writer.collect_stream_docs.
collect_asset_docs == data.written

\* The name the detector's writer puts in its documents.
DetName == "testa"

StreamResource(uid) ==
    [name |-> "stream_resource", uid |-> uid, stream_resource |-> "none",
     start |-> 0, stop |-> 0]

\* The indices start..stop-1 of the resource are there to read.
StreamDatum(uid, start, stop) ==
    [name |-> "stream_datum", uid |-> "none", stream_resource |-> uid,
     start |-> start, stop |-> stop]

\* writer.collect_stream_docs(indices_written) of a writer whose stream
\* documents are w: nothing while no index is written; the resource when the
\* file is first made; one datum for the indices not emitted yet.
collect_stream_docs(w, uid, indices_written) ==
    IF indices_written = 0 THEN <<>>
    ELSE (IF w.file THEN <<>> ELSE <<StreamResource(uid)>>)
         \o (IF indices_written > w.last_emitted
             THEN <<StreamDatum(uid, w.last_emitted, indices_written)>>
             ELSE <<>>)

\* The writer's stream documents after that call.
Collected(w, indices_written) ==
    IF indices_written = 0 THEN w
    ELSE [file |-> TRUE,
          last_emitted |-> IF indices_written > w.last_emitted
                           THEN indices_written ELSE w.last_emitted]

\* A collect_asset_docs() that yields the writer's documents last first.
YieldReversed(docs) == [k \in 1..Len(docs) |-> docs[Len(docs) + 1 - k]]

\* A collect_asset_docs() that runs the loop a second time.
YieldTwice(docs) == docs \o docs

\* async for doc in ...: yield doc -- what collect_asset_docs() yields of
\* the documents the writer yields.
Yield(docs) == docs

CallDescribe ==
    /\ ret' = [op |-> "describe", val |-> describe, error |-> "none", docs |-> <<>>]
    /\ UNCHANGED <<_describe, control, data, tasks, stream, caller, recovery, others>>

CallRead ==
    /\ ret' = [op |-> "read", val |-> read, error |-> "none", docs |-> <<>>]
    /\ UNCHANGED <<_describe, control, data, tasks, stream, caller, recovery, others>>

\* collect_asset_docs() run to its end: the count is read, the writer's
\* documents for it are yielded, and the writer has emitted them.
CollectAssetDocs ==
    /\ ret' = [op |-> "collect_asset_docs", val |-> collect_asset_docs, error |-> "none",
               docs |-> Yield(collect_stream_docs(stream, DetName, collect_asset_docs))]
    /\ stream' = Collected(stream, collect_asset_docs)

CallCollectAssetDocs ==
    /\ CollectAssetDocs
    /\ UNCHANGED <<_describe, control, data, tasks, caller, recovery, others>>

\* -------------------------------------------------------- second detector
\* The same coroutines on the detector count_sim runs beside the first one.
PeerName == "testb"

PeerOnly ==
    UNCHANGED <<_describe, control, data, tasks, ret, stream, caller, recovery,
                plan, pilatus>>

PeerAt(kind, pc) == peer.task.kind = kind /\ peer.task.pc = pc

PeerCloseDone ==
    /\ peer.task.close = "running"
    /\ peer' = [peer EXCEPT !.data = Closed(@),
                   !.task = IF @.kind = "unstage"
                            THEN Finished([@ EXCEPT !.close = "done"], "success", "none")
                            ELSE IF Done(@) THEN [@ EXCEPT !.close = "none"]
                            ELSE [@ EXCEPT !.close = "done",
                                     !.first = IF @ = "none" THEN "close" ELSE @]]
    /\ PeerOnly

PeerCloseFail ==
    /\ peer.task.close = "running"
    /\ peer' = [peer EXCEPT
                   !.task = IF @.kind = "unstage"
                            THEN Finished([@ EXCEPT !.close = "failed"], "failed", "CloseError")
                            ELSE IF Done(@) THEN [@ EXCEPT !.close = "none"]
                            ELSE [@ EXCEPT !.close = "failed",
                                     !.gather_exc = IF @ = "none" THEN "CloseError" ELSE @]]
    /\ PeerOnly

PeerDisarmDone ==
    /\ peer.task.disarm = "running"
    /\ peer' = [peer EXCEPT !.control = Disarmed(@),
                   !.task = IF Done(@) THEN [@ EXCEPT !.disarm = "none"]
                            ELSE [@ EXCEPT !.disarm = "done",
                                     !.first = IF @ = "none" THEN "disarm" ELSE @]]
    /\ PeerOnly

PeerDisarmFail ==
    /\ peer.task.disarm = "running"
    /\ peer' = [peer EXCEPT
                   !.task = IF Done(@) THEN [@ EXCEPT !.disarm = "none"]
                            ELSE [@ EXCEPT !.disarm = "failed",
                                     !.gather_exc = IF @ = "none" THEN "DisarmError" ELSE @]]
    /\ PeerOnly

PeerStageGatherRaise ==
    /\ PeerAt("stage", "gather")
    /\ GatherResult(peer.task) \in Errors
    /\ peer' = [peer EXCEPT !.task = Finished(@, "failed", GatherResult(@))]
    /\ PeerOnly

PeerStageOpen ==
    /\ PeerAt("stage", "gather")
    /\ GatherResult(peer.task) = "done"
    /\ peer' = [peer EXCEPT !.task.pc = "open"]
    /\ PeerOnly

PeerOpenDone(d) ==
    /\ PeerAt("stage", "open")
    /\ peer' = [peer EXCEPT !.data = Opened(d), !.stream = NoFile, !._describe = d,
                            !.task = Finished(@, "success", "none")]
    /\ PeerOnly

PeerOpenFail ==
    /\ PeerAt("stage", "open")
    /\ peer' = [peer EXCEPT !.task = Finished(@, "failed", "OpenError")]
    /\ PeerOnly

PeerGetIndicesWritten ==
    /\ PeerAt("trigger", "get_indices_written")
    /\ peer' = [peer EXCEPT !.task.indices_written = peer.data.written,
                            !.task.pc = "arm"]
    /\ PeerOnly

PeerArmReturn ==
    /\ PeerAt("trigger", "arm")
    /\ peer' = [peer EXCEPT
                   !.control = [armed |-> TRUE, mode |-> ArmArgs.mode, num |-> ArmArgs.num],
                   !.task.written_status = "pending", !.task.pc = "await_status"]
    /\ PeerOnly

PeerArmRaise ==
    /\ PeerAt("trigger", "arm")
    /\ \E armed \in {peer.control.armed, TRUE} :
           peer' = [peer EXCEPT !.control.armed = armed,
                                !.task = Finished(@, "failed", "ArmError")]
    /\ PeerOnly

PeerWrittenStatusDone ==
    /\ peer.task.written_status = "pending"
    /\ peer' = [peer EXCEPT !.task.written_status = "done"]
    /\ PeerOnly

PeerWrittenStatusFail ==
    /\ peer.task.written_status = "pending"
    /\ peer' = [peer EXCEPT !.task.written_status = "failed"]
    /\ PeerOnly

PeerAwaitStatusReturn ==
    /\ PeerAt("trigger", "await_status")
    /\ StatusAwaited(peer.task.written_status)
    /\ peer' = [peer EXCEPT !.task.index = WaitIndex(peer.task.indices_written),
                            !.task.pc = "wait_for_index"]
    /\ PeerOnly

PeerAwaitStatusRaise ==
    /\ PeerAt("trigger", "await_status")
    /\ peer.task.written_status = "failed"
    /\ peer' = [peer EXCEPT !.task = Finished(@, "failed", "StatusError")]
    /\ PeerOnly

\* A second detector that was given the first one's writer.
PeerSharesWriter(index) == data.written >= index

\* self.data.wait_for_index(index) of the second detector: its own writer.
PeerIndexReady(index) == peer.data.written >= index

PeerWaitForIndexReturn ==
    /\ PeerAt("trigger", "wait_for_index")
    /\ PeerIndexReady(peer.task.index)
    /\ peer' = [peer EXCEPT !.task = Finished(@, "success", "none")]
    /\ PeerOnly

PeerWaitForIndexRaise ==
    /\ PeerAt("trigger", "wait_for_index")
    /\ ~PeerIndexReady(peer.task.index)
    /\ peer' = [peer EXCEPT !.task = Finished(@, "failed", "TimeoutError")]
    /\ PeerOnly

\* -------------------------------------------------------------- count_sim
\* count_sim(dets, times): the plan of the tests, run on one detector or on
\* two, and the stream documents the RunEngine hands to its subscribers.
Plans ==
    {[NoPlan EXCEPT !.pc = "stage_all", !.dets = k, !.times = t] :
        k \in {1, 2}, t \in 1..MaxWritten}

PlanInit ==
    /\ Constructed
    /\ plan \in Plans
    /\ pilatus = NoController
    /\ caller = "plan"
    /\ recovery = "none"

Two == plan.dets = 2

\* The detectors of the plan: 1 is the first, 2 the second.
Dets == IF Two THEN {1, 2} ELSE {1}

\* The status the plan holds of detector i.
StatusOf(i) == IF i = 1 THEN tasks[1] ELSE peer.task

PlanOnly == UNCHANGED <<_describe, control, data, ret, stream, caller, recovery, pilatus>>

\* Each detector of the plan is given the status st of a new call.
PlanCalls(st) ==
    /\ tasks' = [tasks EXCEPT ![1] = st]
    /\ peer' = IF Two THEN [peer EXCEPT !.task = st] ELSE peer

\* bps.stage_all(*dets)
PlanStageAll ==
    /\ plan.pc = "stage_all"
    /\ PlanCalls(stage)
    /\ plan' = [plan EXCEPT !.pc = "staging"]
    /\ PlanOnly

\* The wait of the plan is over: every status it waits for is done.
PlanWaited(pc, next) ==
    /\ plan.pc = pc
    /\ \A i \in Dets : StatusOf(i).status = "success"
    /\ plan' = [plan EXCEPT !.pc = next]
    /\ UNCHANGED <<tasks, peer>>
    /\ PlanOnly

\* A status the plan waits for has failed: the RunEngine ends the plan.
PlanFailed ==
    /\ plan.pc \in {"staging", "wait", "unstaging"}
    /\ \E i \in Dets : StatusOf(i).status = "failed"
    /\ plan' = [plan EXCEPT !.pc = "failed"]
    /\ UNCHANGED <<tasks, peer>>
    /\ PlanOnly

PlanStaged == PlanWaited("staging", "rd")

\* bps.rd(det.data.hdf.num_captured) for each detector
PlanRd ==
    /\ plan.pc = "rd"
    /\ plan' = [plan EXCEPT !.read_values = <<data.written, peer.data.written>>,
                            !.pc = "trigger"]
    /\ UNCHANGED <<tasks, peer>>
    /\ PlanOnly

\* bps.trigger(det, wait=False, group="wait_for_trigger") for each detector
PlanTrigger ==
    /\ plan.pc = "trigger"
    /\ PlanCalls(trigger)
    /\ plan' = [plan EXCEPT !.pc = "set_sim_value", !.set = {}]
    /\ PlanOnly

\* set_sim_value(det.data.hdf.num_captured, read_values[det] + 1): the writer
\* of the first detector has one index more than the plan read.
SetSimValue ==
    /\ plan.pc = "set_sim_value" /\ 1 \notin plan.set
    /\ data' = [data EXCEPT !.written = plan.read_values[1] + 1]
    /\ plan' = [plan EXCEPT !.set = @ \cup {1}]
    /\ UNCHANGED <<_describe, control, tasks, ret, stream, caller, recovery, peer, pilatus>>

\* The same for the writer of the second detector.
PeerSetSimValue ==
    /\ plan.pc = "set_sim_value" /\ Two /\ 2 \notin plan.set
    /\ peer' = [peer EXCEPT !.data.written = plan.read_values[2] + 1]
    /\ plan' = [plan EXCEPT !.set = @ \cup {2}]
    /\ UNCHANGED <<_describe, control, data, tasks, ret, stream, caller, recovery, pilatus>>

\* bps.wait(group="wait_for_trigger")
PlanWait ==
    /\ plan.pc = "set_sim_value" /\ plan.set = Dets
    /\ plan' = [plan EXCEPT !.pc = "wait"]
    /\ UNCHANGED <<tasks, peer>>
    /\ PlanOnly

PlanTriggered == PlanWaited("wait", "save")

\* The documents the RunEngine hands on, with the detector they came from.
From(i, docs) == [k \in 1..Len(docs) |-> [det |-> i, doc |-> docs[k]]]

\* What the plan does after the documents of a round are out: the next round,
\* or bps.unstage_all.
AfterSave == IF plan.n + 1 < plan.times THEN "rd" ELSE "unstage_all"

\* bps.save(): the RunEngine collects the asset documents of the first
\* detector.
PlanSave ==
    /\ plan.pc = "save"
    /\ CollectAssetDocs
    /\ plan' = [plan EXCEPT !.docs = @ \o From(1, ret'.docs),
                            !.pc = IF Two THEN "save_peer" ELSE AfterSave,
                            !.n = IF Two THEN @ ELSE @ + 1]
    /\ UNCHANGED <<_describe, control, data, tasks, caller, recovery, peer, pilatus>>

\* ... and those of the second detector.
PeerSave ==
    /\ plan.pc = "save_peer"
    /\ peer' = [peer EXCEPT !.stream = Collected(@, peer.data.written)]
    /\ plan' = [plan EXCEPT
                   !.docs = @ \o From(2, Yield(collect_stream_docs(peer.stream, PeerName,
                                                                    peer.data.written))),
                   !.pc = AfterSave, !.n = @ + 1]
    /\ UNCHANGED <<_describe, control, data, tasks, ret, stream, caller, recovery, pilatus>>

\* bps.unstage_all(*dets)
PlanUnstageAll ==
    /\ plan.pc = "unstage_all"
    /\ PlanCalls(unstage)
    /\ plan' = [plan EXCEPT !.pc = "unstaging"]
    /\ PlanOnly

PlanUnstaged == PlanWaited("unstaging", "done")

\* ------------------------------------------------------ PilatusController
\* A TRIGGER_MODE that knows DetectorTrigger.edge_trigger as well.
TriggerModeWithEdge ==
    [internal |-> "internal", edge_trigger |-> "ext_trigger",
     constant_gate |-> "ext_enable", variable_gate |-> "ext_enable"]

\* TRIGGER_MODE: DetectorTrigger to the driver's TriggerMode.
TRIGGER_MODE ==
    [internal |-> "internal", constant_gate |-> "ext_enable",
     variable_gate |-> "ext_enable"]

\* The signals of the driver arm() writes.
ArmSignals == {"trigger_mode", "num_images", "image_mode"}

\* What arm(mode, num) writes to each of them.
ArmWrites(mode, num) ==
    [trigger_mode |-> TRIGGER_MODE[mode], num_images |-> num,
     image_mode |-> "multiple"]

\* A wait that is over as soon as one write has completed.
ArmGatherFirstCompleted(c) ==
    IF c.gather_exc # "none" THEN c.gather_exc
    ELSE IF \E sig \in ArmSignals : c.sets[sig] = "done" THEN "done"
    ELSE "pending"

\* await asyncio.gather(set, set, set) in arm(): "pending" while it waits,
\* "done" when the three writes have completed, and the first exception of
\* any as soon as it is raised (the others go on).
ArmGatherResult(c) ==
    IF c.gather_exc # "none" THEN c.gather_exc
    ELSE IF \A sig \in ArmSignals : c.sets[sig] = "done" THEN "done"
    ELSE "pending"

PilatusOnly ==
    UNCHANGED <<_describe, control, data, tasks, ret, stream, caller, recovery,
                plan, peer>>

\* The controller can be called: the call before is over and no write it
\* started is still on its way.
CallOver ==
    /\ pilatus.call.pc \in {"idle", "returned", "raised"}
    /\ \A sig \in ArmSignals : pilatus.call.sets[sig] # "running"

\* arm(mode, num): the arguments of gather() are evaluated in turn, the first
\* being trigger_mode.set(TRIGGER_MODE[mode]): a mode that TRIGGER_MODE does
\* not have raises KeyError there, before any set() is called; otherwise the
\* three writes are started.
CallArm(mode, num) ==
    /\ CallOver
    /\ pilatus' = [pilatus EXCEPT !.call =
           IF mode \in DOMAIN TRIGGER_MODE
           THEN [NoCall EXCEPT !.kind = "arm", !.pc = "gather", !.mode = mode,
                               !.num = num,
                               !.sets = [sig \in ArmSignals |-> "running"]]
           ELSE [NoCall EXCEPT !.kind = "arm", !.pc = "raised", !.mode = mode,
                               !.num = num, !.error = "KeyError"]]
    /\ PilatusOnly

\* A write of arm() completes: the signal has the value written.
SetDone(sig) ==
    /\ pilatus.call.sets[sig] = "running"
    /\ pilatus' = [pilatus EXCEPT
           !.driver[sig] = ArmWrites(pilatus.call.mode, pilatus.call.num)[sig],
           !.call.sets[sig] = "done"]
    /\ PilatusOnly

\* A write of arm() fails.
SetFail(sig) ==
    /\ pilatus.call.sets[sig] = "running"
    /\ pilatus' = [pilatus EXCEPT
           !.call.sets[sig] = "failed",
           !.call.gather_exc = IF @ = "none" THEN "SetError" ELSE @]
    /\ PilatusOnly

\* The await of gather() raises: arm() ends with that exception.
ArmGatherRaise ==
    /\ pilatus.call.kind = "arm" /\ pilatus.call.pc = "gather"
    /\ ArmGatherResult(pilatus.call) \notin {"pending", "done"}
    /\ pilatus' = [pilatus EXCEPT !.call.pc = "raised",
                                  !.call.error = ArmGatherResult(pilatus.call)]
    /\ PilatusOnly

\* The await of gather() returns: arm() calls
\* arm_and_trigger_detector_and_check_status_pv(self.driver).
ArmAcquire ==
    /\ pilatus.call.kind = "arm" /\ pilatus.call.pc = "gather"
    /\ ArmGatherResult(pilatus.call) = "done"
    /\ pilatus' = [pilatus EXCEPT !.call.pc = "acquire"]
    /\ PilatusOnly

\* The acquisition is started and arm() returns its status.
AcquireStarted ==
    /\ pilatus.call.kind = "arm" /\ pilatus.call.pc = "acquire"
    /\ pilatus' = [pilatus EXCEPT !.driver.acquire = TRUE, !.call.pc = "returned"]
    /\ PilatusOnly

\* Starting the acquisition raises.
AcquireFail ==
    /\ pilatus.call.kind = "arm" /\ pilatus.call.pc = "acquire"
    /\ pilatus' = [pilatus EXCEPT !.call.pc = "raised", !.call.error = "AcquireError"]
    /\ PilatusOnly

\* disarm(): await stop_busy_record(self.driver.acquire, False, timeout=1)
CallDisarm ==
    /\ CallOver
    /\ pilatus' = [pilatus EXCEPT !.call = [NoCall EXCEPT !.kind = "disarm", !.pc = "stop"]]
    /\ PilatusOnly

\* The acquisition is stopped.
DisarmStopped ==
    /\ pilatus.call.kind = "disarm" /\ pilatus.call.pc = "stop"
    /\ pilatus' = [pilatus EXCEPT !.driver.acquire = FALSE, !.call.pc = "returned"]
    /\ PilatusOnly

\* The record does not stop within the timeout.
DisarmTimeout ==
    /\ pilatus.call.kind = "disarm" /\ pilatus.call.pc = "stop"
    /\ pilatus' = [pilatus EXCEPT !.call.pc = "raised", !.call.error = "TimeoutError"]
    /\ PilatusOnly

\* ------------------------------------------------------------ behaviours
\* A step of the coroutine of trigger() in slot s.
TriggerStep(s) ==
    \/ GetIndicesWritten(s)
    \/ ArmReturn(s)
    \/ ArmRaise(s)
    \/ AwaitStatusReturn(s)
    \/ AwaitStatusRaise(s)
    \/ WaitForIndexReturn(s)
    \/ WaitForIndexRaise(s)

Next ==
    \/ \E s \in Slots : CallStage(s)
    \/ \E s \in Slots : CloseDone(s)
    \/ \E s \in Slots : CloseFail(s)
    \/ \E s \in Slots : DisarmDone(s)
    \/ \E s \in Slots : DisarmFail(s)
    \/ \E s \in Slots : StageGatherRaise(s)
    \/ \E s \in Slots : StageOpen(s)
    \/ \E s \in Slots : \E d \in Descs : OpenDone(s, d)
    \/ \E s \in Slots : OpenFail(s)
    \/ \E s \in Slots : CallTrigger(s)
    \/ \E s \in Slots : GetIndicesWritten(s)
    \/ \E s \in Slots : ArmReturn(s)
    \/ \E s \in Slots : ArmRaise(s)
    \/ \E s \in Slots : WrittenStatusDone(s)
    \/ \E s \in Slots : WrittenStatusFail(s)
    \/ \E s \in Slots : AwaitStatusReturn(s)
    \/ \E s \in Slots : AwaitStatusRaise(s)
    \/ \E s \in Slots : WaitForIndexReturn(s)
    \/ \E s \in Slots : WaitForIndexRaise(s)
    \/ WriterCommit
    \/ \E s \in Slots : CallUnstage(s)
    \/ CallDescribe
    \/ CallRead
    \/ CallCollectAssetDocs

\* Any caller: calls may overlap.
Spec == Init /\ [][Next]_vars

\* A caller that awaits each status before the next call.
SeqSpec == SeqInit /\ [][Next]_vars

\* count_sim on its detectors: the plan's steps, the coroutines of the calls
\* it made, and the controls reporting their frames or failing.
PlanNext ==
    \/ PlanStageAll
    \/ PlanStaged
    \/ PlanFailed
    \/ PlanRd
    \/ PlanTrigger
    \/ SetSimValue
    \/ PeerSetSimValue
    \/ PlanWait
    \/ PlanTriggered
    \/ PlanSave
    \/ PeerSave
    \/ PlanUnstageAll
    \/ PlanUnstaged
    \/ \E s \in Slots : CloseDone(s)
    \/ \E s \in Slots : CloseFail(s)
    \/ \E s \in Slots : DisarmDone(s)
    \/ \E s \in Slots : DisarmFail(s)
    \/ \E s \in Slots : StageGatherRaise(s)
    \/ \E s \in Slots : StageOpen(s)
    \/ \E s \in Slots : \E d \in Descs : OpenDone(s, d)
    \/ \E s \in Slots : OpenFail(s)
    \/ \E s \in Slots : GetIndicesWritten(s)
    \/ \E s \in Slots : ArmReturn(s)
    \/ \E s \in Slots : ArmRaise(s)
    \/ \E s \in Slots : WrittenStatusDone(s)
    \/ \E s \in Slots : WrittenStatusFail(s)
    \/ \E s \in Slots : AwaitStatusReturn(s)
    \/ \E s \in Slots : AwaitStatusRaise(s)
    \/ \E s \in Slots : WaitForIndexReturn(s)
    \/ \E s \in Slots : WaitForIndexRaise(s)
    \/ PeerCloseDone
    \/ PeerCloseFail
    \/ PeerDisarmDone
    \/ PeerDisarmFail
    \/ PeerStageGatherRaise
    \/ PeerStageOpen
    \/ \E d \in Descs : PeerOpenDone(d)
    \/ PeerOpenFail
    \/ PeerGetIndicesWritten
    \/ PeerArmReturn
    \/ PeerArmRaise
    \/ PeerWrittenStatusDone
    \/ PeerWrittenStatusFail
    \/ PeerAwaitStatusReturn
    \/ PeerAwaitStatusRaise
    \/ PeerWaitForIndexReturn
    \/ PeerWaitForIndexRaise

PlanSpec == PlanInit /\ [][PlanNext]_vars

\* The calls of a PilatusController, one at a time, and its driver.
PilatusNext ==
    \/ \E mode \in DetectorTrigger : \E num \in 0..MaxNum : CallArm(mode, num)
    \/ \E sig \in ArmSignals : SetDone(sig)
    \/ \E sig \in ArmSignals : SetFail(sig)
    \/ ArmGatherRaise
    \/ ArmAcquire
    \/ AcquireStarted
    \/ AcquireFail
    \/ CallDisarm
    \/ DisarmStopped
    \/ DisarmTimeout

PilatusSpec == Init /\ [][PilatusNext]_vars

\* The event loop runs every coroutine that can go on, and a call of
\* control.arm or writer.wait_for_index comes back; whether the control ever
\* reports the frame or the writer ever commits is up to the hardware.
FairSpec == Spec /\ \A s \in Slots : WF_vars(TriggerStep(s))

\* ================================================================= claims
IsTrigger(s) == tasks[s].kind = "trigger"

IsStage(s) == tasks[s].kind = "stage"

\* The step ends the call in slot s with this status.
Ends(s, status) == Pending(s) /\ tasks'[s].status = status

\* C1: a trigger() status completes successfully only in a state where the
\* status control.arm returned has completed and the writer reports at least
\* N+1 indices, N being the count trigger() read at its start; until then the
\* status stays incomplete.
TriggerCompletesAfterCommit ==
    [][\A s \in Slots :
          (IsTrigger(s) /\ Ends(s, "success")) =>
              /\ tasks[s].written_status = "done"
              /\ tasks[s].indices_written # NoCount
              /\ data'.written >= tasks[s].indices_written + 1]_vars

TriggerCompleted ==
    \E s \in Slots :
        /\ IsTrigger(s) /\ tasks[s].status = "success"
        /\ data.written >= 1 /\ control.armed

\* C2: within one trigger() the count is read before control.arm is called,
\* wait_for_index is started only once the status arm returned has completed,
\* and it is called with the count read first plus one, whatever the other
\* tasks do in between.
TriggerStepsInOrder ==
    \A s \in Slots :
        IsTrigger(s) =>
            /\ tasks[s].pc \in {"await_status", "wait_for_index"}
                   => tasks[s].indices_written # NoCount
            /\ tasks[s].written_status # "none" => tasks[s].indices_written # NoCount
            /\ tasks[s].pc = "wait_for_index" =>
                   /\ tasks[s].written_status = "done"
                   /\ tasks[s].index = tasks[s].indices_written + 1

TriggerWaitingAmongOthers ==
    \E s, r \in Slots :
        /\ s # r /\ Pending(r)
        /\ IsTrigger(s) /\ tasks[s].pc = "wait_for_index"
        /\ tasks[s].indices_written = 1 /\ tasks[s].index = 2

\* C3: in stage(), writer.open() is never started while writer.close() or
\* control.disarm() has not finished, in whichever order the two finish.
OpenAfterCloseAndDisarm ==
    \A s \in Slots :
        (IsStage(s) /\ tasks[s].pc = "open") =>
            tasks[s].close = "done" /\ tasks[s].disarm = "done"

OpenAfterDisarmThenClose ==
    \E s \in Slots :
        IsStage(s) /\ tasks[s].pc = "open" /\ tasks[s].first = "disarm"

\* The errors a stage() in state t can end with: those its coroutines raised.
StageErrors(t) ==
    (IF t.close = "failed" THEN {"CloseError"} ELSE {})
        \cup (IF t.disarm = "failed" THEN {"DisarmError"} ELSE {})
        \cup (IF t.pc = "open" THEN {"OpenError"} ELSE {})

\* C4: once close() or disarm() has failed, stage() neither calls open() nor
\* succeeds nor runs the failed coroutine again; a stage() that fails carries
\* an error its own close(), disarm() or open() raised and leaves the cached
\* description as it was.
StageFailureSurfaced ==
    [][\A s \in Slots :
          (IsStage(s) /\ Pending(s)) =>
              /\ (tasks[s].close = "failed" \/ tasks[s].disarm = "failed") =>
                     /\ tasks'[s].pc # "open"
                     /\ tasks'[s].status # "success"
                     /\ tasks'[s].close # "running" \/ tasks[s].close = "running"
                     /\ tasks'[s].disarm # "running" \/ tasks[s].disarm = "running"
              /\ tasks'[s].status = "failed" =>
                     /\ tasks'[s].error \in StageErrors(tasks[s])
                     /\ _describe' = _describe]_vars

StageFailedKeepingDescription ==
    \E s \in Slots :
        /\ IsStage(s) /\ tasks[s].status = "failed"
        /\ tasks[s].error = "DisarmError"
        /\ _describe \in Descs

\* C5: at most one trigger() that has armed the control is outstanding: a
\* trigger() issued while an earlier one is incomplete does not arm the
\* control again.
OneTriggerCycleOutstanding ==
    Cardinality({s \in Slots : IsTrigger(s) /\ Pending(s)
                                  /\ tasks[s].written_status # "none"}) <= 1

\* C6: a trigger() does not wait forever: whether or not the control reports
\* the frame and the writer commits the index, its status gets done.
TriggerTerminates ==
    \A s \in Slots : (IsTrigger(s) /\ Pending(s)) ~> ~(IsTrigger(s) /\ Pending(s))

\* The errors a trigger() in state t can end with.
TriggerErrors(t) ==
    CASE t.pc = "arm" -> {"ArmError"}
      [] t.pc = "await_status" -> {"StatusError"}
      [] t.pc = "wait_for_index" -> {"TimeoutError"}
      [] OTHER -> {}

\* C7: a trigger() starts no disarm() and no close() and calls control.arm
\* once only; when its arm call, the status arm returned or its index wait
\* fails, it ends in failure with that error, the writer is untouched and a
\* control that was armed stays armed.
TriggerFailureLeavesArmed ==
    [][\A s \in Slots :
          (IsTrigger(s) /\ Pending(s)) =>
              /\ tasks'[s].close = "none" /\ tasks'[s].disarm = "none"
              /\ tasks'[s].pc = "arm" => tasks[s].pc \in {"get_indices_written", "arm"}
              /\ (tasks[s].written_status = "failed" /\ tasks'[s] # tasks[s])
                     => Ends(s, "failed")
              /\ Ends(s, "failed") =>
                     /\ tasks'[s].error \in TriggerErrors(tasks[s])
                     /\ data' = data
                     /\ control.armed => control'.armed
                     /\ tasks[s].pc # "arm" => control' = control]_vars

TriggerTimedOutArmed ==
    \E s \in Slots :
        /\ IsTrigger(s) /\ tasks[s].status = "failed"
        /\ tasks[s].error = "TimeoutError"
        /\ control.armed /\ data.open

\* Nothing a failed trigger() left behind holds up the calls after it.
RecoveryNotBlocked ==
    recovery \in {"left_armed", "restaged"} =>
        /\ (\A r \in Slots : Reusable(r)) => ENABLED CallStage(1) /\ ENABLED CallTrigger(1)
        /\ \A s \in Slots :
              /\ (IsStage(s) /\ tasks[s].pc = "gather"
                      /\ tasks[s].close = "done" /\ tasks[s].disarm = "done")
                     => ENABLED StageOpen(s)
              /\ (IsStage(s) /\ tasks[s].pc = "open") => ENABLED OpenDone(s, 1)
              /\ (IsTrigger(s) /\ tasks[s].pc = "await_status"
                      /\ tasks[s].written_status = "done")
                     => ENABLED AwaitStatusReturn(s)
              /\ (IsTrigger(s) /\ tasks[s].pc = "wait_for_index"
                      /\ data.written >= tasks[s].indices_written + 1)
                     => ENABLED WaitForIndexReturn(s)

\* C8: for a caller that awaits each call: after a trigger() failed and left
\* the control armed, a stage() whose close(), disarm() and open() return is
\* held up by nothing, and when it succeeds the control is disarmed, the
\* writer was closed and is open again with no index written, and the
\* description is the one open() returned; the trigger() after it is held up
\* by nothing once the control has reported the frame and the writer has one
\* index more than at that trigger's start, and succeeds only then.
RecoveryAfterFailedTrigger ==
    /\ []RecoveryNotBlocked
    /\ [][\A s \in Slots :
             /\ (recovery = "left_armed" /\ IsStage(s) /\ Ends(s, "success")) =>
                    /\ tasks[s].close = "done" /\ tasks[s].disarm = "done"
                    /\ ~control'.armed
                    /\ data'.open /\ data'.written = 0
                    /\ _describe' = data'.description
                    /\ recovery' = "restaged"
             /\ (recovery = "restaged" /\ IsTrigger(s) /\ Ends(s, "success")) =>
                    /\ tasks[s].written_status = "done"
                    /\ data'.written >= tasks[s].indices_written + 1
                    /\ recovery' = "retriggered"]_vars

RetriggeredAfterRecovery ==
    /\ recovery = "retriggered"
    /\ \E s \in Slots : IsTrigger(s) /\ tasks[s].status = "success"
    /\ control.armed /\ data.open /\ data.written >= 1

\* C9: once a stage() has succeeded, describe() returns the mapping that
\* writer.open() returned in the most recent successful stage(), and only a
\* stage() that succeeds changes the cached description.
DescribeIsLastStaged ==
    /\ [](data.description # NotOpened => describe = data.description)
    /\ [][_describe' # _describe =>
             \E s \in Slots : IsStage(s) /\ Ends(s, "success")]_vars

DescribedAfterTrigger ==
    /\ data.description \in Descs
    /\ ret = [op |-> "describe", val |-> data.description, error |-> "none",
              docs |-> <<>>]
    /\ describe = data.description
    /\ \E s \in Slots : IsTrigger(s) /\ tasks[s].status = "success"

\* C10: describe() on a detector on which no stage() has succeeded is a
\* usage error and returns no mapping.
DescribeBeforeStageIsUsageError ==
    (ret.op = "describe" /\ data.description = NotOpened) => ret.error = "UsageError"

\* The documents the plan got from detector i, in the order it got them.
DocsOf(i) == SelectSeq(plan.docs, LAMBDA e : e.det = i)

Named(docs, name) == SelectSeq(docs, LAMBDA e : e.doc.name = name)

\* The rounds of the plan after which the documents of detector i are out.
Rounds(i) == IF i = 1 /\ plan.pc = "save_peer" THEN plan.n + 1 ELSE plan.n

\* C11: in a run of the plan (one stage(), then rounds of a trigger() and a
\* collect_asset_docs() after it), the documents got from a detector after k
\* rounds hold exactly k StreamDatum, each of a range that is not empty and
\* that starts where the one before it stopped, and at most one
\* StreamResource.
OneDatumPerTrigger ==
    \A i \in Dets :
        LET datums == Named(DocsOf(i), "stream_datum")
        IN  /\ Len(datums) = Rounds(i)
            /\ \A k \in 1..Len(datums) :
                   /\ datums[k].doc.start < datums[k].doc.stop
                   /\ datums[k].doc.start = IF k = 1 THEN 0 ELSE datums[k - 1].doc.stop
            /\ Len(Named(DocsOf(i), "stream_resource")) <= 1

TwoRoundsCollected ==
    /\ plan.pc = "done" /\ plan.n = 2
    /\ Len(Named(DocsOf(1), "stream_datum")) = 2
    /\ Len(Named(DocsOf(1), "stream_resource")) = 1
    /\ data.written = 2

\* What a writer whose stream documents went from w to w2 has emitted, in
\* the order it emits: the resource when it made the file, then the datum of
\* the indices it moved over.
Emitted(w, w2, uid) ==
    (IF ~w.file /\ w2.file THEN <<StreamResource(uid)>> ELSE <<>>)
        \o (IF w2.last_emitted > w.last_emitted
            THEN <<StreamDatum(uid, w.last_emitted, w2.last_emitted)>>
            ELSE <<>>)

\* The documents the plan got in this step.
Got == SubSeq(plan'.docs, Len(plan.docs) + 1, Len(plan'.docs))

\* C12: in the documents of a run of the plan every StreamDatum comes after
\* the StreamResource it refers to, and each collect_asset_docs() hands on
\* exactly the documents its writer emitted in that call, in the writer's
\* order.
ResourceBeforeDatum ==
    /\ [](\A k \in 1..Len(plan.docs) :
             plan.docs[k].doc.name = "stream_datum" =>
                 \E j \in 1..(k - 1) :
                     /\ plan.docs[j].doc.name = "stream_resource"
                     /\ plan.docs[j].doc.uid = plan.docs[k].doc.stream_resource)
    /\ [][/\ plan.pc = "save" =>
                 Got = From(1, Emitted(stream, stream', DetName))
          /\ plan.pc = "save_peer" =>
                 Got = From(2, Emitted(peer.stream, peer'.stream, PeerName))
          /\ plan.pc \notin {"save", "save_peer"} => plan'.docs = plan.docs]_vars

TwoDetectorsCollected ==
    /\ Two /\ plan.pc = "unstage_all"
    /\ plan.docs = From(1, <<StreamResource(DetName), StreamDatum(DetName, 0, 1)>>)
                       \o From(2, <<StreamResource(PeerName), StreamDatum(PeerName, 0, 1)>>)

IsUnstage(s) == tasks[s].kind = "unstage"

\* The step ends a close() or a disarm() of the call in slot s.
CloseEnds(s) == tasks[s].close = "running" /\ tasks'[s].close # "running"

DisarmEnds(s) == tasks[s].disarm = "running" /\ tasks'[s].disarm # "running"

UnstageFromAnyState ==
    /\ [](\A s \in Slots :
             /\ NextSlot(s) => ENABLED CallUnstage(s)
             /\ (IsUnstage(s) /\ Pending(s)) => ENABLED CloseDone(s))
    /\ [][\A s \in Slots :
             /\ (tasks'[s].kind = "unstage" /\ tasks'[s] # tasks[s]
                     /\ tasks'[s].status = "failed") =>
                    /\ IsUnstage(s) /\ Pending(s) /\ CloseEnds(s)
                    /\ tasks'[s].error = "CloseError"
                    /\ data' = data
             /\ (IsUnstage(s) /\ Pending(s) /\ tasks'[s] # tasks[s]) =>
                    /\ Done(tasks'[s])
                    /\ control' = control /\ _describe' = _describe
             /\ (IsUnstage(s) /\ Ends(s, "success")) => ~data'.open]_vars

UnstagedUnderTrigger ==
    \E s, r \in Slots :
        /\ IsUnstage(s) /\ tasks[s].status = "success"
        /\ IsTrigger(r) /\ Pending(r) /\ tasks[r].pc = "wait_for_index"
        /\ ~data.open /\ control.armed

\* C16: read() can be called in every state, returns the empty mapping and
\* changes nothing of the detector, its control, its writer or its calls.
ReadReturnsNothing ==
    /\ [](ENABLED CallRead)
    /\ [](ret.op = "read" =>
             ret.val = EmptyMapping /\ ret.error = "none" /\ ret.docs = <<>>)
    /\ [][(ret'.op = "read" /\ ret' # ret) =>
             <<_describe, control, data, tasks, stream>>'
                 = <<_describe, control, data, tasks, stream>>]_vars

ReadAfterTrigger ==
    /\ ret.op = "read" /\ ret.val = EmptyMapping
    /\ _describe \in Descs /\ data.written >= 1
    /\ \E s \in Slots : IsTrigger(s) /\ tasks[s].status = "success"

\* C20: an unstage() starts no disarm() and no arm() and none of its steps
\* changes the control; the control changes only where a trigger() arms it
\* or the disarm() of a stage() ends, so a control a failed trigger() left
\* armed is armed when the unstage() after it is done, and until a stage().
UnstageLeavesControl ==
    [][/\ \A s \in Slots :
              /\ (IsUnstage(s) /\ Pending(s)) =>
                     /\ tasks[s].disarm = "none"
                     /\ tasks[s].written_status = "none"
                     /\ tasks[s].pc = "close"
              /\ (IsUnstage(s) /\ Pending(s) /\ tasks'[s] # tasks[s]) =>
                     control' = control
       /\ control' # control =>
              \E s \in Slots :
                  \/ IsStage(s) /\ DisarmEnds(s)
                  \/ IsTrigger(s) /\ tasks[s].pc = "arm" /\ tasks'[s].pc # "arm"
       /\ (control.armed /\ ~control'.armed) =>
              \E s \in Slots : IsStage(s) /\ DisarmEnds(s)]_vars

UnstagedStillArmed ==
    /\ recovery = "left_armed"
    /\ \E s \in Slots : IsUnstage(s) /\ tasks[s].status = "success"
    /\ control.armed /\ ~data.open

\* The trigger() calls of the plan that have succeeded, on each detector.
Triggered == IF plan.pc \in {"save", "save_peer"} THEN plan.n + 1 ELSE plan.n

\* The control as control.arm(DetectorTrigger.internal, num=1) leaves it.
ArmedForOne == [armed |-> TRUE, mode |-> "internal", num |-> 1]

\* C15: in a run of the plan each trigger() calls control.arm once, with
\* DetectorTrigger.internal and num=1, and changes the control nowhere else;
\* after stage() left the writer at 0 indices, the writer reports k indices
\* when k trigger() calls, one after the other, have succeeded.
ArmsOnceForOneFrame ==
    /\ [][/\ \A s \in Slots :
                 (IsTrigger(s) /\ Pending(s)) =>
                     /\ (tasks[s].pc = "arm" /\ tasks'[s].pc = "await_status") =>
                            control' = ArmedForOne
                     /\ tasks'[s].pc = "arm" =>
                            tasks[s].pc \in {"get_indices_written", "arm"}
                     /\ (tasks'[s] # tasks[s] /\ tasks[s].pc # "arm") =>
                            control' = control
                     /\ Ends(s, "success") =>
                            tasks[s].written_status = "done" /\ control = ArmedForOne
          /\ (peer.task.pc = "arm" /\ peer'.task.pc = "await_status") =>
                 peer'.control = ArmedForOne]_vars
    /\ [](plan.pc \in {"rd", "trigger", "save", "save_peer", "unstage_all",
                       "unstaging", "done"} =>
             /\ data.written = Triggered
             /\ Two => peer.data.written = Triggered)

TriggeredTwice ==
    /\ plan.pc = "save" /\ plan.n = 1 /\ data.written = 2
    /\ control = ArmedForOne
    /\ IsTrigger(1) /\ tasks[1].status = "success"

\* The name in the documents of detector i of the plan.
NameOf(i) == IF i = 1 THEN DetName ELSE PeerName

PeerTriggers == peer.task.kind = "trigger" /\ peer.task.status = "pending"

\* C17: with two detectors in the plan, both triggered before either writer
\* has advanced: the trigger() of each succeeds only when the status of its
\* own arm is done and its own writer has reached its own N+1, and can go on
\* as soon as that is so, whatever the other detector has done and whichever
\* writer advanced first; a step of one detector's coroutines changes nothing
\* of the other; and each StreamDatum the plan got from a detector refers to
\* the StreamResource it got from that detector before.
TwoDetectorsIndependent ==
    /\ [][Two =>
             /\ (IsTrigger(1) /\ Ends(1, "success")) =>
                    /\ tasks[1].written_status = "done"
                    /\ data'.written >= tasks[1].indices_written + 1
             /\ (PeerTriggers /\ peer'.task.status = "success") =>
                    /\ peer.task.written_status = "done"
                    /\ peer'.data.written >= peer.task.indices_written + 1
             /\ (plan' = plan /\ peer' # peer) =>
                    <<_describe, control, data, tasks, stream>>'
                        = <<_describe, control, data, tasks, stream>>
             /\ (plan' = plan /\ <<_describe, control, data, tasks, stream>>'
                                     # <<_describe, control, data, tasks, stream>>) =>
                    peer' = peer]_vars
    /\ [](Two =>
             /\ (IsTrigger(1) /\ tasks[1].pc = "await_status"
                     /\ tasks[1].written_status = "done") => ENABLED AwaitStatusReturn(1)
             /\ (IsTrigger(1) /\ tasks[1].pc = "wait_for_index"
                     /\ data.written >= tasks[1].indices_written + 1)
                    => ENABLED WaitForIndexReturn(1)
             /\ (PeerTriggers /\ peer.task.pc = "await_status"
                     /\ peer.task.written_status = "done") => ENABLED PeerAwaitStatusReturn
             /\ (PeerTriggers /\ peer.task.pc = "wait_for_index"
                     /\ peer.data.written >= peer.task.indices_written + 1)
                    => ENABLED PeerWaitForIndexReturn)
    /\ [](\A k \in 1..Len(plan.docs) :
             plan.docs[k].doc.name = "stream_datum" =>
                 /\ plan.docs[k].doc.stream_resource = NameOf(plan.docs[k].det)
                 /\ \E j \in 1..(k - 1) :
                        plan.docs[j] = [det |-> plan.docs[k].det,
                                        doc |-> StreamResource(NameOf(plan.docs[k].det))])

PeerTriggeredFirst ==
    /\ Two /\ plan.pc = "set_sim_value" /\ plan.set = {2}
    /\ peer.task.kind = "trigger" /\ peer.task.status = "success"
    /\ IsTrigger(1) /\ Pending(1) /\ tasks[1].pc = "wait_for_index"
    /\ peer.data.written = 1 /\ data.written = 0

\* The writes of the call of arm() have all completed and the driver's
\* signals have the values the call was to write.
AllWritten ==
    /\ \A sig \in ArmSignals : pilatus.call.sets[sig] = "done"
    /\ pilatus.driver.trigger_mode = TRIGGER_MODE[pilatus.call.mode]
    /\ pilatus.driver.num_images = pilatus.call.num
    /\ pilatus.driver.image_mode = "multiple"

\* C18: PilatusController.arm starts the writes of the trigger mode, of the
\* number of images and of the image mode 'multiple' together; it goes on to
\* start the acquisition, and the acquisition starts, only when the three
\* writes have completed with those values; once a write has failed the
\* acquisition is not started and the call can only end with that failure.
WritesThenAcquire ==
    /\ [](pilatus.call.kind = "arm" /\ pilatus.call.pc = "acquire" => AllWritten)
    /\ [][/\ (pilatus.call.pc # "gather" /\ pilatus'.call.pc = "gather")
              => \A sig \in ArmSignals : pilatus'.call.sets[sig] = "running"
          /\ (~pilatus.driver.acquire /\ pilatus'.driver.acquire)
              => pilatus.call.kind = "arm" /\ AllWritten
          /\ (\E sig \in ArmSignals : pilatus.call.sets[sig] = "failed")
              => /\ pilatus'.driver.acquire = pilatus.driver.acquire
                 /\ pilatus'.call.pc \notin {"acquire", "returned"}
                 /\ (pilatus.call.pc = "gather" /\ pilatus'.call.pc # "gather")
                    => (pilatus'.call.pc = "raised" /\ pilatus'.call.error = "SetError")
         ]_vars

\* arm(variable_gate, MaxNum) has returned with the acquisition started.
ArmedAfterWrites ==
    /\ pilatus.call.kind = "arm" /\ pilatus.call.pc = "returned"
    /\ pilatus.call.mode = "variable_gate" /\ pilatus.call.num = MaxNum
    /\ pilatus.driver = [trigger_mode |-> "ext_enable", num_images |-> MaxNum,
                         image_mode |-> "multiple", acquire |-> TRUE]

====
